---- MODULE Spec2Model ----
(***************************************************************************)
(* Resolution of a GraphQL query document against a schema                 *)
(* (graphql_client_codegen/src/resolution.rs): resolve and the resolvers   *)
(* it calls, the ID-based store they build, the view layer                 *)
(* (IdSelection::upgrade, Operation::selection, Fragment::selection) and   *)
(* the used-type walk (Operation::all_used_types).                         *)
(*                                                                         *)
(* A Rust Result is a record tagged "Ok" or "Err"; a panic (expect,        *)
(* unwrap, todo!, unreachable!) is a third outcome tagged "Panic", which   *)
(* no caller can catch.  An Option is a sequence of length 0 or 1.         *)
(***************************************************************************)
EXTENDS Integers, Sequences, FiniteSets, TLC

VARIABLES
    document,       \* the parsed query document handed to resolve
    result,         \* what resolve returned ("Pending" before the call)
    walk,           \* position of Operation::all_used_types
    operation_id,   \* Operation.operation_id of the operation being walked
    stack,          \* call stack of collect_used_types (innermost frame last)
    all_used_types, \* the HashSet<TypeId> being accumulated
    sel_on,         \* argument `on` of a direct call of resolve_selection
    sel_set,        \* argument `selection_set` of that call
    sel_result      \* what that call returned ("Pending" before the call)

vars == <<document, result, walk, operation_id, stack, all_used_types,
          sel_on, sel_set, sel_result>>

---------------------------------------------------------------------------
(* Bounds *)

\* longest document, in definitions
MaxDefs == 3
\* longest top-level selection set handed to resolve_selection
MaxItems == 2
\* call depth at which the thread's stack is exhausted
MaxStack == 8

---------------------------------------------------------------------------
(* Option and Result *)

None == <<>>
Some(x) == <<x>>

Ok(v) == [tag |-> "Ok", val |-> v]
Err(e) == [tag |-> "Err", err |-> e]
Panic(m) == [tag |-> "Panic", msg |-> m]
Pending == [tag |-> "Pending"]

---------------------------------------------------------------------------
(* The schema: Scenario A's schema (Query.me: User, User.id: ID,           *)
(* User.name: String) with a mutation root, an interface, an enum and a    *)
(* union.                                                                  *)

SchemaTypes ==
    [Query |-> "Object", Mutation |-> "Object", User |-> "Object",
     Node |-> "Interface", ID |-> "Scalar", String |-> "Scalar",
     Role |-> "Enum", SearchResult |-> "Union"]

ObjectFields ==
    [Query |-> [me |-> "User", node |-> "Node"],
     Mutation |-> [setName |-> "User"],
     User |-> [id |-> "ID", name |-> "String", friend |-> "User",
               role |-> "Role"]]

\* a TypeId: the tagged reference TypeId::Object(id), TypeId::Scalar(id), ...
TypeIdOf(type_name) == [tag |-> SchemaTypes[type_name], id |-> type_name]

find_type(type_name) ==
    IF type_name \in DOMAIN SchemaTypes THEN Some(TypeIdOf(type_name)) ELSE None

query_type == "Query"
mutation_type == "Mutation"

\* schema.field(id): the FieldRef of a StoredFieldId <<object, field>>
field(id) ==
    [id |-> id, type_id |-> TypeIdOf(ObjectFields[id[1]][id[2]])]

get_field_by_name(object, field_name) ==
    IF field_name \in DOMAIN ObjectFields[object]
    THEN Some(field(<<object, field_name>>))
    ELSE None

---------------------------------------------------------------------------
(* The parsed document (graphql_parser::query) *)

FieldItem(field_name, items) ==
    [kind |-> "Field", name |-> field_name, selection_set |-> items]
InlineFragmentItem(cond, items) ==
    [kind |-> "InlineFragment", type_condition |-> cond, selection_set |-> items]
FragmentSpreadItem(fname) ==
    [kind |-> "FragmentSpread", fragment_name |-> fname]

FragmentDefinition(fname, cond, items) ==
    [kind |-> "Fragment", name |-> fname, type_condition |-> cond,
     selection_set |-> items]
\* op is "Query", "Mutation", "Subscription" or "SelectionSet" (the
\* shorthand `{ ... }`); opname is an Option
OperationDefinition(op, opname, vardefs, items) ==
    [kind |-> "Operation", op |-> op, name |-> opname,
     variable_definitions |-> vardefs, selection_set |-> items]
VariableDefinition(vname, vtype, default) ==
    [name |-> vname, var_type |-> vtype, default_value |-> default]

---------------------------------------------------------------------------
(* The ID-based representation *)

IdField(id, children) == [tag |-> "Field", id |-> id, selection |-> children]
IdFragmentSpread(fname) == [tag |-> "FragmentSpread", name |-> fname]
IdInlineFragment(type_id, children) ==
    [tag |-> "InlineFragment", type_id |-> type_id, selection |-> children]

ResolvedFragment(fname, type_id, children) ==
    [name |-> fname, on |-> type_id, selection |-> children]
ResolvedOperation(opname, optype, variables, children) ==
    [name |-> opname, operation_type |-> optype, variables |-> variables,
     selection |-> children]
ResolvedQuery(operations, fragments) ==
    [operations |-> operations, fragments |-> fragments]
DefaultResolvedQuery == ResolvedQuery(<<>>, <<>>)

---------------------------------------------------------------------------
(* The resolvers *)

RECURSIVE resolve_selection(_, _)
RECURSIVE resolve_object_selection(_, _)
RECURSIVE resolve_inline_fragment(_)
RECURSIVE resolve_item(_, _)
RECURSIVE collect_results(_, _, _)

\* the closure of resolve_object_selection's map: one Selection item
resolve_item(object, item) ==
    CASE item.kind = "Field" ->
            LET field_ref == get_field_by_name(object, item.name) IN
            IF field_ref = None
            THEN Err([msg |-> "No field named", field |-> item.name,
                      on |-> object])
            ELSE LET children ==
                        resolve_selection(field_ref[1].type_id,
                                          item.selection_set) IN
                 IF children.tag # "Ok" THEN children
                 ELSE Ok(IdField(field_ref[1].id, children.val))
      [] item.kind = "InlineFragment" -> resolve_inline_fragment(item)
      [] item.kind = "FragmentSpread" ->
            Ok(IdFragmentSpread(item.fragment_name))

\* faulty variant of collect_results: an item that fails with an error is
\* left out of the result (filter_map(Result::ok) in place of collect)
collect_results_filter_map(object, items, acc) ==
    IF items = <<>> THEN Ok(acc)
    ELSE LET r == resolve_item(object, Head(items)) IN
         IF r.tag = "Panic" THEN r
         ELSE collect_results(object, Tail(items),
                              IF r.tag = "Ok" THEN Append(acc, r.val) ELSE acc)

\* .map(...).collect::<Result<_, _>>(): items in order, stopping at the
\* first one that is not Ok
collect_results(object, items, acc) ==
    IF items = <<>> THEN Ok(acc)
    ELSE LET r == resolve_item(object, Head(items)) IN
         IF r.tag # "Ok" THEN r
         ELSE collect_results(object, Tail(items), Append(acc, r.val))

RECURSIVE MergeRepeated(_, _)
\* nodes without the Field nodes whose field an earlier node already selects
MergeRepeated(nodes, acc) ==
    IF nodes = <<>> THEN acc
    ELSE IF /\ Head(nodes).tag = "Field"
            /\ \E i \in 1..Len(acc) :
                  acc[i].tag = "Field" /\ acc[i].id = Head(nodes).id
         THEN MergeRepeated(Tail(nodes), acc)
         ELSE MergeRepeated(Tail(nodes), Append(acc, Head(nodes)))

\* faulty variant of resolve_object_selection: a field selected again is
\* merged into its first selection
resolve_object_selection_merged(object, selection_set) ==
    LET r == collect_results(object, selection_set, <<>>) IN
    IF r.tag # "Ok" THEN r ELSE Ok(MergeRepeated(r.val, <<>>))

resolve_object_selection(object, selection_set) ==
    collect_results(object, selection_set, <<>>)

\* faulty variant of resolve_selection: no ensure! in the last arm
resolve_selection_unchecked(on, selection_set) ==
    CASE on.tag = "Object" -> resolve_object_selection(on.id, selection_set)
      [] on.tag = "Interface" -> Panic("not yet implemented: interface thing")
      [] OTHER -> Ok(<<>>)

resolve_selection(on, selection_set) ==
    CASE on.tag = "Object" -> resolve_object_selection(on.id, selection_set)
      [] on.tag = "Interface" -> Panic("not yet implemented: interface thing")
      [] OTHER ->
            IF selection_set = <<>> THEN Ok(<<>>)
            ELSE Err([msg |-> "Selection set on non-object, non-interface type",
                      on |-> on])

resolve_inline_fragment(inline_fragment) ==
    IF inline_fragment.type_condition = None
    THEN Panic("missing type condition")
    ELSE LET type_id == find_type(inline_fragment.type_condition[1]) IN
         IF type_id = None THEN Err([msg |-> "TODO: error message"])
         ELSE LET children ==
                     resolve_selection(type_id[1],
                                       inline_fragment.selection_set) IN
              IF children.tag # "Ok" THEN children
              ELSE Ok(IdInlineFragment(type_id[1], children.val))

\* Ok(query with the fragment pushed), or the failure
resolve_fragment(query, fragment) ==
    LET on == find_type(fragment.type_condition) IN
    IF on = None THEN Panic("TODO: proper error message")
    ELSE LET children == resolve_selection(on[1], fragment.selection_set) IN
         IF children.tag # "Ok" THEN children
         ELSE Ok(ResolvedQuery(
                    query.operations,
                    Append(query.fragments,
                           ResolvedFragment(fragment.name, on[1], children.val))))

\* the variables a ResolvedOperation is built with
resolved_variables(operation) == <<>>

\* Ok(query with the operation pushed), or the failure
resolve_operation(query, operation) ==
    CASE operation.op \in {"Mutation", "Query"} ->
            LET on == IF operation.op = "Mutation" THEN mutation_type
                      ELSE query_type IN
            IF operation.name = None
            THEN Panic(IF operation.op = "Mutation"
                       THEN "mutation without name" ELSE "query without name")
            ELSE LET children ==
                        resolve_object_selection(on, operation.selection_set) IN
                 IF children.tag # "Ok" THEN children
                 ELSE Ok(ResolvedQuery(
                            Append(query.operations,
                                   ResolvedOperation(operation.name[1],
                                                     operation.op,
                                                     resolved_variables(operation),
                                                     children.val)),
                            query.fragments))
      [] operation.op = "Subscription" ->
            Panic("not yet implemented: resolve subscription")
      [] operation.op = "SelectionSet" ->
            Panic("unnamed queries are not supported")

resolve_definition(query, definition) ==
    IF definition.kind = "Fragment"
    THEN resolve_fragment(query, definition)
    ELSE resolve_operation(query, definition)

RECURSIVE resolve_definitions(_, _)
\* the loop of resolve: definitions in document order, `?` on each
resolve_definitions(query, definitions) ==
    IF definitions = <<>> THEN Ok(query)
    ELSE LET r == resolve_definition(query, Head(definitions)) IN
         IF r.tag # "Ok" THEN r
         ELSE resolve_definitions(r.val, Tail(definitions))

resolve(query) == resolve_definitions(DefaultResolvedQuery, query)

---------------------------------------------------------------------------
(* The view layer *)

\* faulty variant of position: the last fragment of that name (rposition)
position_last(fragments, fname, i) ==
    LET found == {j \in i..(Len(fragments) - 1) : fragments[j + 1].name = fname} IN
    IF found = {} THEN None
    ELSE Some(CHOOSE j \in found : \A k \in found : k <= j)

RECURSIVE position(_, _, _)
\* query.fragments.iter().position(|frag| frag.name == name), 0-based,
\* scanning from index i
position(fragments, fname, i) ==
    IF i >= Len(fragments) THEN None
    ELSE IF fragments[i + 1].name = fname THEN Some(i)
    ELSE position(fragments, fname, i + 1)

RECURSIVE upgrade(_, _)
RECURSIVE upgrade_all(_, _, _)

\* selection.iter().map(|s| s.upgrade(schema, query)).collect()
upgrade_all(id_selections, query, acc) ==
    IF id_selections = <<>> THEN Ok(acc)
    ELSE LET r == upgrade(Head(id_selections), query) IN
         IF r.tag # "Ok" THEN r
         ELSE upgrade_all(Tail(id_selections), query, Append(acc, r.val))

\* IdSelection::upgrade: the Selection of an IdSelection
upgrade(id_selection, query) ==
    CASE id_selection.tag = "Field" ->
            LET children == upgrade_all(id_selection.selection, query, <<>>) IN
            IF children.tag # "Ok" THEN children
            ELSE Ok([tag |-> "Field", field |-> field(id_selection.id),
                     selection |-> children.val])
      [] id_selection.tag = "FragmentSpread" ->
            LET fragment_id == position(query.fragments, id_selection.name, 0) IN
            IF fragment_id = None
            THEN Panic("called Option::unwrap() on a None value")
            ELSE Ok([tag |-> "FragmentSpread",
                     fragment |-> [fragment_id |-> fragment_id[1]]])
      [] id_selection.tag = "InlineFragment" ->
            LET children == upgrade_all(id_selection.selection, query, <<>>) IN
            IF children.tag # "Ok" THEN children
            ELSE Ok([tag |-> "InlineFragment",
                     on |-> [type_id |-> id_selection.type_id],
                     selection |-> children.val])

\* Operation::selection, collected: the Selections of operation operation_id
operation_selection(query, id) ==
    upgrade_all(query.operations[id + 1].selection, query, <<>>)

\* Fragment::selection, collected: the Selections of fragment fragment_id
fragment_selection(query, fragment) ==
    upgrade_all(query.fragments[fragment.fragment_id + 1].selection, query, <<>>)

---------------------------------------------------------------------------
(* Inputs *)

SeqsUpTo(S, n) == UNION {[1..k -> S] : k \in 0..n}

me(items) == FieldItem("me", items)

\* the definitions documents are made of
FragmentDefinitions ==
    { \* fragment F on User { name }                          (Scenario D)
      FragmentDefinition("F", "User", <<FieldItem("name", <<>>)>>),
      \* fragment F on User { id friend { ...F } }            (spreads itself)
      FragmentDefinition("F", "User",
          <<FieldItem("id", <<>>),
            FieldItem("friend", <<FragmentSpreadItem("F")>>)>>),
      \* fragment F on User { ...G }
      FragmentDefinition("F", "User", <<FragmentSpreadItem("G")>>),
      \* fragment G on User { ... on User { role } ...F }
      FragmentDefinition("G", "User",
          <<InlineFragmentItem(Some("User"), <<FieldItem("role", <<>>)>>),
            FragmentSpreadItem("F")>>),
      \* fragment G on User { friend { friend { email } } }  (no User.email)
      FragmentDefinition("G", "User",
          <<FieldItem("friend",
                <<FieldItem("friend", <<FieldItem("email", <<>>)>>)>>)>>),
      \* fragment F on Nope { name }               (no such type in the schema)
      FragmentDefinition("F", "Nope", <<FieldItem("name", <<>>)>>) }

OperationDefinitions ==
    { \* query Q { me { ...F } }                              (Scenarios D, E)
      OperationDefinition("Query", Some("Q"), <<>>,
          <<me(<<FragmentSpreadItem("F")>>)>>),
      \* query Me($id: ID!, $name: String = "x") { me { id name } } (Scenario A)
      OperationDefinition("Query", Some("Me"),
          <<VariableDefinition("id", "ID!", None),
            VariableDefinition("name", "String", Some("x"))>>,
          <<me(<<FieldItem("id", <<>>), FieldItem("name", <<>>)>>)>>),
      \* mutation M { setName { ...G id } }
      OperationDefinition("Mutation", Some("M"), <<>>,
          <<FieldItem("setName",
                <<FragmentSpreadItem("G"), FieldItem("id", <<>>)>>)>>),
      \* query Bad { me { email } }                           (Scenario B)
      OperationDefinition("Query", Some("Bad"), <<>>,
          <<me(<<FieldItem("email", <<>>)>>)>>),
      \* query Bad2 { me { id { x } } }                       (Scenario C)
      OperationDefinition("Query", Some("Bad2"), <<>>,
          <<me(<<FieldItem("id", <<FieldItem("x", <<>>)>>)>>)>>),
      \* subscription S { me { id } }
      OperationDefinition("Subscription", Some("S"), <<>>,
          <<me(<<FieldItem("id", <<>>)>>)>>),
      \* query { me { id } }                                  (no name)
      OperationDefinition("Query", None, <<>>,
          <<me(<<FieldItem("id", <<>>)>>)>>),
      \* { me { id } }                                       (shorthand)
      OperationDefinition("SelectionSet", None, <<>>,
          <<me(<<FieldItem("id", <<>>)>>)>>),
      \* query N { node { id } }                  (Query.node is an interface)
      OperationDefinition("Query", Some("N"), <<>>,
          <<FieldItem("node", <<FieldItem("id", <<>>)>>)>>) }

Definitions == FragmentDefinitions \cup OperationDefinitions

Documents == SeqsUpTo(Definitions, MaxDefs) \ {<<>>}

\* the selection sets handed to resolve_selection directly
SelFieldNames == {"id", "friend", "email"}
SelInlineConditions == {Some("User"), Some("ID"), Some("Nope"), None}
SelTargets == {"User", "ID", "Role", "SearchResult", "Node"}

LeafItems ==
    {FieldItem(n, <<>>) : n \in SelFieldNames} \cup {FragmentSpreadItem("F")}
InnerSelectionSets == {<<>>} \cup {<<i>> : i \in LeafItems}
Items ==
    LeafItems
    \cup {FieldItem(n, s) : n \in SelFieldNames, s \in InnerSelectionSets}
    \cup {InlineFragmentItem(c, s) :
            c \in SelInlineConditions, s \in InnerSelectionSets}
SelectionSets == SeqsUpTo(Items, MaxItems)

---------------------------------------------------------------------------
(* The state machine *)

Frame(items, upgraded) == [rest |-> items, upgraded |-> upgraded]

InitWalk ==
    /\ walk = "idle"
    /\ operation_id = 0
    /\ stack = <<>>
    /\ all_used_types = {}

\* a document is handed to resolve
Init ==
    /\ document \in Documents
    /\ result = Pending
    /\ InitWalk
    /\ sel_on = TypeIdOf("User")
    /\ sel_set = <<>>
    /\ sel_result = Pending

\* a target type and a selection set are handed to resolve_selection
InitSel ==
    /\ document = <<>>
    /\ result = Pending
    /\ InitWalk
    /\ sel_on \in {TypeIdOf(t) : t \in SelTargets}
    /\ sel_set \in SelectionSets
    /\ sel_result = Pending

\* resolve(schema, query)
Resolve ==
    /\ result = Pending
    /\ document # <<>>
    /\ result' = resolve(document)
    /\ UNCHANGED <<document, walk, operation_id, stack, all_used_types,
                   sel_on, sel_set, sel_result>>

\* resolve_selection(schema, on, selection_set)
ResolveSelection ==
    /\ sel_result = Pending
    /\ sel_result' = resolve_selection(sel_on, sel_set)
    /\ UNCHANGED <<document, result, walk, operation_id, stack, all_used_types,
                   sel_on, sel_set>>

\* Operation::all_used_types is called on an operation of the store: the
\* for loop over self.selection(), whose items are upgraded one at a time
AllUsedTypes ==
    /\ result.tag = "Ok"
    /\ walk = "idle"
    /\ \E id \in 0..(Len(result.val.operations) - 1) :
        /\ operation_id' = id
        /\ stack' = <<Frame(result.val.operations[id + 1].selection, FALSE)>>
    /\ all_used_types' = {}
    /\ walk' = "collecting"
    /\ UNCHANGED <<document, result, sel_on, sel_set, sel_result>>

Top == stack[Len(stack)]

\* the next Selection of the innermost iteration: upgraded now when the
\* iterator is the lazy one of Operation::selection or Fragment::selection
NextSelection ==
    IF Top.upgraded THEN Ok(Head(Top.rest))
    ELSE upgrade(Head(Top.rest), result.val)

Iterating ==
    /\ walk = "collecting"
    /\ stack # <<>>
    /\ Top.rest # <<>>

\* the stack with the innermost iterator advanced and a call of
\* collect_used_types pushed, which iterates `items`
Call(items, upgraded) ==
    Append([stack EXCEPT ![Len(stack)].rest = Tail(@)], Frame(items, upgraded))

\* collect_used_types on Selection::Field
CollectField ==
    /\ Iterating
    /\ NextSelection.tag = "Ok"
    /\ NextSelection.val.tag = "Field"
    /\ Len(stack) < MaxStack
    /\ all_used_types' = all_used_types \cup {NextSelection.val.field.type_id}
    /\ stack' = Call(NextSelection.val.selection, TRUE)
    /\ UNCHANGED <<document, result, walk, operation_id,
                   sel_on, sel_set, sel_result>>

\* collect_used_types on Selection::FragmentSpread
CollectFragmentSpread ==
    /\ Iterating
    /\ NextSelection.tag = "Ok"
    /\ NextSelection.val.tag = "FragmentSpread"
    /\ Len(stack) < MaxStack
    /\ stack' = Call(result.val.fragments[
                        NextSelection.val.fragment.fragment_id + 1].selection,
                     FALSE)
    /\ UNCHANGED <<document, result, walk, operation_id, all_used_types,
                   sel_on, sel_set, sel_result>>

\* collect_used_types on Selection::InlineFragment
CollectInlineFragment ==
    /\ Iterating
    /\ NextSelection.tag = "Ok"
    /\ NextSelection.val.tag = "InlineFragment"
    /\ Len(stack) < MaxStack
    /\ all_used_types' = all_used_types \cup {NextSelection.val.on.type_id}
    /\ stack' = Call(NextSelection.val.selection, TRUE)
    /\ UNCHANGED <<document, result, walk, operation_id,
                   sel_on, sel_set, sel_result>>

\* the unwrap of IdSelection::upgrade panics: no fragment of that name
UpgradeUnwrapPanic ==
    /\ Iterating
    /\ NextSelection.tag = "Panic"
    /\ walk' = "panicked"
    /\ UNCHANGED <<document, result, operation_id, stack, all_used_types,
                   sel_on, sel_set, sel_result>>

\* one more call of collect_used_types than the stack holds
StackOverflow ==
    /\ Iterating
    /\ NextSelection.tag = "Ok"
    /\ Len(stack) >= MaxStack
    /\ walk' = "overflowed"
    /\ UNCHANGED <<document, result, operation_id, stack, all_used_types,
                   sel_on, sel_set, sel_result>>

\* a call of collect_used_types returns: its iteration is exhausted
CollectReturn ==
    /\ walk = "collecting"
    /\ Len(stack) > 1
    /\ Top.rest = <<>>
    /\ stack' = SubSeq(stack, 1, Len(stack) - 1)
    /\ UNCHANGED <<document, result, walk, operation_id, all_used_types,
                   sel_on, sel_set, sel_result>>

\* the for loop of all_used_types is exhausted: the set is returned
AllUsedTypesReturn ==
    /\ walk = "collecting"
    /\ Len(stack) = 1
    /\ Top.rest = <<>>
    /\ stack' = <<>>
    /\ walk' = "returned"
    /\ UNCHANGED <<document, result, operation_id, all_used_types,
                   sel_on, sel_set, sel_result>>

Next ==
    \/ Resolve
    \/ AllUsedTypes
    \/ CollectField
    \/ CollectFragmentSpread
    \/ CollectInlineFragment
    \/ UpgradeUnwrapPanic
    \/ StackOverflow
    \/ CollectReturn
    \/ AllUsedTypesReturn

Spec == Init /\ [][Next]_vars

NextSel == ResolveSelection

SpecSel == InitSel /\ [][NextSel]_vars

---------------------------------------------------------------------------
(* Vocabulary of the properties *)

Leaf(type_id) == type_id.tag \in {"Scalar", "Enum"}

RECURSIVE SpreadNames(_)
\* the names of the FragmentSpread nodes of a stored tree, at any depth
SpreadNames(nodes) ==
    UNION { IF nodes[i].tag = "FragmentSpread" THEN {nodes[i].name}
            ELSE SpreadNames(nodes[i].selection) : i \in 1..Len(nodes) }

RECURSIVE TreeTypes(_)
\* the declared type of every Field node and the narrowing type of every
\* InlineFragment node of a stored tree, at any depth
TreeTypes(nodes) ==
    UNION { CASE nodes[i].tag = "Field" ->
                    {field(nodes[i].id).type_id} \cup TreeTypes(nodes[i].selection)
              [] nodes[i].tag = "InlineFragment" ->
                    {nodes[i].type_id} \cup TreeTypes(nodes[i].selection)
              [] OTHER -> {} : i \in 1..Len(nodes) }

FragmentNamesOf(query) ==
    {query.fragments[i].name : i \in 1..Len(query.fragments)}

\* every spread of every stored tree names a stored fragment
SpreadsResolvable(query) ==
    /\ \A i \in 1..Len(query.operations) :
          SpreadNames(query.operations[i].selection) \subseteq FragmentNamesOf(query)
    /\ \A i \in 1..Len(query.fragments) :
          SpreadNames(query.fragments[i].selection) \subseteq FragmentNamesOf(query)

\* the first stored fragment of that name
FragmentNamed(query, fname) ==
    query.fragments[CHOOSE i \in 1..Len(query.fragments) :
                        /\ query.fragments[i].name = fname
                        /\ \A j \in 1..(i - 1) : query.fragments[j].name # fname]

RECURSIVE ReachableFragments(_, _, _)
\* the fragment names reachable from `names` through spreads, in at most n rounds
ReachableFragments(query, names, n) ==
    IF n = 0 THEN names
    ELSE ReachableFragments(
            query,
            names \cup UNION { SpreadNames(FragmentNamed(query, f).selection) :
                                f \in names \cap FragmentNamesOf(query) },
            n - 1)

\* the types reachable from an operation, spreads followed
ReachableTypes(query, id) ==
    LET root == query.operations[id + 1].selection
        frags == ReachableFragments(query, SpreadNames(root), Len(query.fragments))
    IN  TreeTypes(root)
        \cup UNION { TreeTypes(FragmentNamed(query, f).selection) :
                        f \in frags \cap FragmentNamesOf(query) }

IsOperation(definition) == definition.kind = "Operation"
IsFragment(definition) == definition.kind = "Fragment"

RECURSIVE ItemSpreads(_)
\* the fragment names spread in a source selection set, at any depth
ItemSpreads(items) ==
    UNION { IF items[i].kind = "FragmentSpread" THEN {items[i].fragment_name}
            ELSE ItemSpreads(items[i].selection_set) : i \in 1..Len(items) }

\* the static defects of a source selection set against a type: an undeclared
\* field as [on, field], anything else that stops resolution as OtherDefect
OtherDefect == [other |-> TRUE]

RECURSIVE SelDefects(_, _)
SelDefects(type_id, items) ==
    CASE type_id.tag = "Object" ->
            UNION { CASE items[i].kind = "Field" ->
                            IF items[i].name \notin DOMAIN ObjectFields[type_id.id]
                            THEN {[on |-> type_id.id, field |-> items[i].name]}
                            ELSE SelDefects(
                                    TypeIdOf(ObjectFields[type_id.id][items[i].name]),
                                    items[i].selection_set)
                      [] items[i].kind = "InlineFragment" ->
                            IF \/ items[i].type_condition = None
                               \/ items[i].type_condition[1] \notin DOMAIN SchemaTypes
                            THEN {OtherDefect}
                            ELSE SelDefects(TypeIdOf(items[i].type_condition[1]),
                                            items[i].selection_set)
                      [] OTHER -> {} : i \in 1..Len(items) }
      [] type_id.tag = "Interface" -> {OtherDefect}
      [] OTHER -> IF items = <<>> THEN {} ELSE {OtherDefect}

DefinitionDefects(definition) ==
    IF IsFragment(definition)
    THEN IF definition.type_condition \notin DOMAIN SchemaTypes
         THEN {OtherDefect}
         ELSE SelDefects(TypeIdOf(definition.type_condition),
                         definition.selection_set)
    ELSE IF definition.op \notin {"Query", "Mutation"} \/ definition.name = None
         THEN {OtherDefect}
         ELSE SelDefects(TypeIdOf(IF definition.op = "Query" THEN "Query"
                                  ELSE "Mutation"),
                         definition.selection_set)

DocumentDefects(doc) == UNION {DefinitionDefects(doc[i]) : i \in 1..Len(doc)}

---------------------------------------------------------------------------
(* Properties *)

Resolved == result.tag = "Ok"
Finished == walk \in {"returned", "panicked", "overflowed"}

\* C1: whenever resolve succeeds, every FragmentSpread of every stored tree
\* (operations and fragments, any depth) names a fragment of the store: a
\* document with a spread naming no fragment does not yield a store.
C1_SpreadResolvability == Resolved => SpreadsResolvable(result.val)

\* the definitions of the document in the order fragments first
FragmentsFirst(doc) == SelectSeq(doc, IsFragment) \o SelectSeq(doc, IsOperation)

\* the position in doc of the first definition of fragment fname (0: none)
FirstDefinition(doc, fname) ==
    IF \E j \in 1..Len(doc) : IsFragment(doc[j]) /\ doc[j].name = fname
    THEN CHOOSE j \in 1..Len(doc) :
            /\ IsFragment(doc[j]) /\ doc[j].name = fname
            /\ \A k \in 1..(j - 1) : ~(IsFragment(doc[k]) /\ doc[k].name = fname)
    ELSE 0

\* operation at position i of doc spreads fname, whose definition comes later
ForwardReference(doc, i, fname) ==
    /\ IsOperation(doc[i])
    /\ fname \in ItemSpreads(doc[i].selection_set)
    /\ FirstDefinition(doc, fname) > i

\* C2: when an operation spreads a fragment defined later in the document
\* and resolve succeeds, the store is the one resolve builds from the same
\* definitions with the fragments first, and upgrading the spread yields the
\* handle of the stored fragment resolved from that later definition, whose
\* view is the view of that definition's own selection.
C2_ForwardReference ==
    Resolved =>
        \A i \in 1..Len(document) :
            \A fname \in ItemSpreads(document[i].selection_set) :
                ForwardReference(document, i, fname) =>
                    LET j == FirstDefinition(document, fname)
                        k == Len(SelectSeq(SubSeq(document, 1, j - 1), IsFragment))
                        spread == upgrade(IdFragmentSpread(fname), result.val)
                        own == resolve_selection(
                                  TypeIdOf(document[j].type_condition),
                                  document[j].selection_set)
                    IN  /\ resolve(FragmentsFirst(document)) = result
                        /\ spread.tag = "Ok"
                        /\ spread.val.fragment.fragment_id = k
                        /\ own.tag = "Ok"
                        /\ result.val.fragments[k + 1] =
                              ResolvedFragment(fname,
                                               TypeIdOf(document[j].type_condition),
                                               own.val)
                        /\ fragment_selection(result.val, spread.val.fragment) =
                              upgrade_all(own.val, result.val, <<>>)

\* Scenario D: the operation comes first, the fragment after it, the view of
\* the operation reaches the fragment's field `name` through the spread, and
\* the walk of the operation has returned and holds the type of that field
C2_Witness ==
    /\ Len(document) = 2
    /\ ForwardReference(document, 1, "F")
    /\ Resolved
    /\ operation_selection(result.val, 0).tag = "Ok"
    /\ operation_selection(result.val, 0).val[1].selection[1].tag = "FragmentSpread"
    /\ LET through == fragment_selection(
                result.val,
                operation_selection(result.val, 0).val[1].selection[1].fragment)
       IN  /\ through.tag = "Ok"
           /\ through.val[1].tag = "Field"
           /\ through.val[1].field.id = <<"User", "name">>
    /\ walk = "returned"
    /\ TypeIdOf("String") \in all_used_types

\* the position in doc of the first definition with a defect (0: none)
FirstDefective(doc) ==
    IF \E j \in 1..Len(doc) : DefinitionDefects(doc[j]) # {}
    THEN CHOOSE j \in 1..Len(doc) :
            /\ DefinitionDefects(doc[j]) # {}
            /\ \A k \in 1..(j - 1) : DefinitionDefects(doc[k]) = {}
    ELSE 0

\* C3: a document with a field item, at any depth of any operation or
\* fragment, that its object type does not declare yields no store; and when
\* the first definition that does not resolve fails on nothing but undeclared
\* fields, resolve returns the error naming such a field and the type it is
\* not declared on, whatever definitions resolved before it.
C3_UnknownField ==
    result # Pending =>
        LET j == FirstDefective(document) IN
        /\ (DocumentDefects(document) \ {OtherDefect}) # {} => result.tag # "Ok"
        /\ (j > 0 /\ OtherDefect \notin DefinitionDefects(document[j])) =>
                /\ result.tag = "Err"
                /\ result.err.msg = "No field named"
                /\ [on |-> result.err.on, field |-> result.err.field]
                        \in DefinitionDefects(document[j])

\* an earlier definition resolves without error, a later one names an
\* undeclared field, and resolve has returned the error
C3_Witness ==
    /\ Len(document) >= 2
    /\ resolve(<<document[1]>>).tag = "Ok"
    /\ result.tag = "Err"
    /\ result.err.msg = "No field named"

RECURSIVE LeafNodesEmpty(_)
\* every Field node of a leaf type and every InlineFragment node narrowing
\* to a leaf type has no children, at any depth
LeafNodesEmpty(nodes) ==
    \A i \in 1..Len(nodes) :
        CASE nodes[i].tag = "Field" ->
                /\ Leaf(field(nodes[i].id).type_id) => nodes[i].selection = <<>>
                /\ LeafNodesEmpty(nodes[i].selection)
          [] nodes[i].tag = "InlineFragment" ->
                /\ Leaf(nodes[i].type_id) => nodes[i].selection = <<>>
                /\ LeafNodesEmpty(nodes[i].selection)
          [] OTHER -> TRUE

\* C4: resolve_selection on a type that is neither object nor interface
\* fails with the selection-on-leaf error naming the type when the selection
\* set is not empty and returns the empty tree when it is; and in every tree
\* it returns, and every tree of a store, the nodes of scalar or enum type
\* have no children.
C4_LeafInvariant ==
    /\ sel_result # Pending =>
        /\ sel_on.tag \notin {"Object", "Interface"} =>
              IF sel_set = <<>> THEN sel_result = Ok(<<>>)
              ELSE /\ sel_result.tag = "Err"
                   /\ sel_result.err.msg =
                        "Selection set on non-object, non-interface type"
                   /\ sel_result.err.on = sel_on
        /\ sel_result.tag = "Ok" => LeafNodesEmpty(sel_result.val)
    /\ Resolved =>
        /\ \A i \in 1..Len(result.val.operations) :
              LeafNodesEmpty(result.val.operations[i].selection)
        /\ \A i \in 1..Len(result.val.fragments) :
              LeafNodesEmpty(result.val.fragments[i].selection)

\* a selection set on a scalar has been refused
C4_Witness ==
    /\ Leaf(sel_on)
    /\ sel_set # <<>>
    /\ sel_result.tag = "Err"

RECURSIVE Corresponds(_, _, _)
\* nodes is the resolved form of items against type_id: as many nodes as
\* items, the i-th node of the i-th item's kind and name, children likewise
Corresponds(type_id, items, nodes) ==
    /\ Len(nodes) = Len(items)
    /\ \A i \in 1..Len(items) :
        CASE items[i].kind = "Field" ->
                /\ nodes[i].tag = "Field"
                /\ nodes[i].id = <<type_id.id, items[i].name>>
                /\ Corresponds(field(nodes[i].id).type_id,
                               items[i].selection_set, nodes[i].selection)
          [] items[i].kind = "InlineFragment" ->
                /\ nodes[i].tag = "InlineFragment"
                /\ nodes[i].type_id = TypeIdOf(items[i].type_condition[1])
                /\ Corresponds(nodes[i].type_id,
                               items[i].selection_set, nodes[i].selection)
          [] items[i].kind = "FragmentSpread" ->
                /\ nodes[i].tag = "FragmentSpread"
                /\ nodes[i].name = items[i].fragment_name

\* C5: a selection set resolved against an object type yields as many nodes
\* as it has items, the i-th node for the i-th item (field -> Field, inline
\* fragment -> InlineFragment, spread -> FragmentSpread), recursively;
\* repeated fields stay separate nodes.
C5_RoundTripShape ==
    (sel_result.tag = "Ok" /\ sel_on.tag = "Object") =>
        Corresponds(sel_on, sel_set, sel_result.val)

\* the same field selected twice with different sub-selections, resolved
C5_Witness ==
    /\ sel_on.tag = "Object"
    /\ sel_result.tag = "Ok"
    /\ Len(sel_set) >= 2
    /\ sel_set[1].kind = "Field"
    /\ sel_set[2].kind = "Field"
    /\ sel_set[1].name = sel_set[2].name
    /\ sel_set[1].selection_set # sel_set[2].selection_set
    /\ Len(sel_result.val) = Len(sel_set)

\* C6: whenever resolve succeeds, no two fragments of the store share a
\* name: a document defining a fragment name twice does not yield a store.
C6_UniqueFragmentNames ==
    Resolved =>
        \A i, j \in 1..Len(result.val.fragments) :
            i # j => result.val.fragments[i].name # result.val.fragments[j].name

\* C7: resolve ends by returning a store or an error value, never by
\* aborting.
C7_ResolveTotal == result.tag # "Panic"

\* the variables of an operation definition as a ResolvedOperation holds them
ExpectedVariables(operation) ==
    [i \in 1..Len(operation.variable_definitions) |->
        [name |-> operation.variable_definitions[i].name,
         default |-> operation.variable_definitions[i].default_value,
         type |-> operation.variable_definitions[i].var_type]]

\* C8: every stored operation holds one variable per variable declaration
\* of its definition, in order, with the declared name, default and type.
C8_VariablesVerbatim ==
    Resolved =>
        \A i \in 1..Len(result.val.operations) :
            result.val.operations[i].variables =
                ExpectedVariables(SelectSeq(document, IsOperation)[i])

\* C9: all_used_types on an operation of a resolved store returns exactly
\* the declared types of the Field nodes and the narrowing types of the
\* InlineFragment nodes reachable from the operation, spreads followed.
C9_UsedTypeCompleteness ==
    Finished =>
        /\ walk = "returned"
        /\ all_used_types = ReachableTypes(result.val, operation_id)

\* C10: on a store whose spreads all name stored fragments, all_used_types
\* finishes by returning, also when fragments spread each other cyclically.
C10_WalkTerminates ==
    (Resolved /\ SpreadsResolvable(result.val)) =>
        walk \notin {"panicked", "overflowed"}

====
